---- MODULE Spec2Model ----
(***************************************************************************)
(* Model of python/say_digit.py: the recursive function say_digit, run by  *)
(* a small number of threads, each with its own call stack of frames.      *)
(* One action per executed source line of the function body.               *)
(***************************************************************************)
EXTENDS Integers, Sequences, FiniteSets, TLC

\* ---------------------------------------------------------------- bounds
NumProcs == 2
MaxInput == 14
MaxNeg   == 3
MaxDepth == 4
NumFairProcs == 1

Procs  == 1..NumProcs
FairProcs == 1..NumFairProcs
Inputs == (0 - MaxNeg)..MaxInput

\* ------------------------------------------------------ pure definitions

\* line 2: the list literal bound to the local name words
Words == <<"zero", "one", "two", "three", "four", "five", "six", "seven", "eight", "nine">>

\* Python list subscript w[i]: 0-based, a negative index counts from the
\* end, anything outside -len..len-1 raises IndexError.
IndexInRange(w, i) == (0 - Len(w)) <= i /\ i <= Len(w) - 1

IndexShifted(w, i) == IF i >= 0 THEN w[((i + 1) % Len(w)) + 1] ELSE w[Len(w) + i + 1]

Index(w, i) == IF i >= 0 THEN w[i + 1] ELSE w[Len(w) + i + 1]

\* line 7: digit % 10 (Python floor modulo, result in 0..9)
ModTen(d) == d % 10

\* A variant that takes the remainder where the quotient is meant.
DivTenRemainder(d) == d % 10

\* line 8: digit // 10 (Python floor division)
DivTen(d) == d \div 10

\* line 5: the value returned by the base case
BaseValueZero == "zero"

BaseValue == ""

\* line 9: words[digit] + <value returned by the recursive call>
ConcatSwapped(left, right) == right \o left

Concat(left, right) == left \o right

\* The function as written, lines 1-9, as a recursive operator.  The
\* name digit is rebound on line 7 before remaining is computed on line 8.
RECURSIVE say_digit(_)
say_digit(digit) ==
    IF digit = 0
    THEN BaseValue
    ELSE LET digit2    == ModTen(digit)
             remaining == DivTen(digit2)
         IN  Concat(Index(Words, digit2), say_digit(remaining))

\* ----------------------------------------------------------------- state
VARIABLES
    status,   \* per thread: "idle", "running", "done" or "raised"
    input,    \* per thread: argument of the outermost call
    stack,    \* per thread: call stack, innermost frame last
    result,   \* per thread: value returned by the outermost call
    trace     \* per thread: arguments of all invocations made, in order

vars == <<status, input, stack, result, trace>>

\* lines 1-2: a fresh activation of say_digit with argument n; remaining
\* is unbound (<<>>) until line 8 runs, left and ret hold the operands of
\* the + on line 9.
NewFrame(n) ==
    [digit |-> n, remaining |-> <<>>, words |-> Words,
     pc |-> "test", left |-> "", ret |-> ""]

Top(p) == stack[p][Len(stack[p])]

SetTop(p, f) == [stack EXCEPT ![p][Len(stack[p])] = f]

Running(p, label) ==
    /\ status[p] = "running"
    /\ Len(stack[p]) > 0
    /\ Top(p).pc = label

\* A return statement: the innermost frame is popped and v is handed to
\* the caller's pending + (line 9), or to the thread when the outermost
\* call returns.
ReturnValue(p, v) ==
    IF Len(stack[p]) = 1
    THEN /\ stack'  = [stack EXCEPT ![p] = <<>>]
         /\ result' = [result EXCEPT ![p] = v]
         /\ status' = [status EXCEPT ![p] = "done"]
    ELSE /\ stack'  = [stack EXCEPT ![p] =
                          [SubSeq(stack[p], 1, Len(stack[p]) - 1)
                             EXCEPT ![Len(stack[p]) - 1].ret = v,
                                    ![Len(stack[p]) - 1].pc  = "add"]]
         /\ UNCHANGED <<result, status>>

Init ==
    /\ status = [p \in Procs |-> "idle"]
    /\ input  = [p \in Procs |-> 0]
    /\ stack  = [p \in Procs |-> <<>>]
    /\ result = [p \in Procs |-> ""]
    /\ trace  = [p \in Procs |-> <<>>]

\* ---------------------------------------------------------------- actions

\* line 1: a thread calls say_digit(n)
Call(p, n) ==
    /\ status[p] = "idle"
    /\ status' = [status EXCEPT ![p] = "running"]
    /\ input'  = [input EXCEPT ![p] = n]
    /\ stack'  = [stack EXCEPT ![p] = <<NewFrame(n)>>]
    /\ trace'  = [trace EXCEPT ![p] = <<n>>]
    /\ result' = [result EXCEPT ![p] = ""]

\* lines 4-5: if digit == 0: return ''
StepTest(p) ==
    /\ Running(p, "test")
    /\ IF Top(p).digit = 0
       THEN ReturnValue(p, BaseValue)
       ELSE /\ stack' = SetTop(p, [Top(p) EXCEPT !.pc = "mod"])
            /\ UNCHANGED <<result, status>>
    /\ UNCHANGED <<input, trace>>

\* A variant that skips the reduction modulo 10.
StepModNone(p) ==
    /\ Running(p, "mod")
    /\ stack' = SetTop(p, [Top(p) EXCEPT !.pc = "div"])
    /\ UNCHANGED <<status, input, result, trace>>

\* A variant in which digit is a module-level name shared by all threads.
StepModShared(p) ==
    /\ Running(p, "mod")
    /\ stack' = [q \in Procs |->
                   IF q = p
                   THEN [stack[q] EXCEPT ![Len(stack[q])] =
                           [@ EXCEPT !.digit = ModTen(@), !.pc = "div"]]
                   ELSE IF Len(stack[q]) > 0
                        THEN [stack[q] EXCEPT ![Len(stack[q])] =
                                [@ EXCEPT !.digit = ModTen(Top(p).digit)]]
                        ELSE stack[q]]
    /\ UNCHANGED <<status, input, result, trace>>

\* line 7: digit = digit % 10
StepMod(p) ==
    /\ Running(p, "mod")
    /\ stack' = SetTop(p, [Top(p) EXCEPT !.digit = ModTen(@), !.pc = "div"])
    /\ UNCHANGED <<status, input, result, trace>>

\* A variant that divides the argument the invocation was called with.
StepDivOriginal(p) ==
    /\ Running(p, "div")
    /\ stack' = SetTop(p, [Top(p) EXCEPT
                              !.remaining = <<DivTen(trace[p][Len(trace[p])])>>,
                              !.pc = "call"])
    /\ UNCHANGED <<status, input, result, trace>>

\* line 8: remaining = digit // 10, digit being the value line 7 left
StepDiv(p) ==
    /\ Running(p, "div")
    /\ stack' = SetTop(p, [Top(p) EXCEPT !.remaining = <<DivTen(Top(p).digit)>>,
                                          !.pc = "call"])
    /\ UNCHANGED <<status, input, result, trace>>

\* A variant whose subscript also removes the entry it reads.
StepCallPop(p) ==
    /\ Running(p, "call")
    /\ Len(stack[p]) < MaxDepth
    /\ IF IndexInRange(Top(p).words, Top(p).digit)
       THEN /\ stack' = [stack EXCEPT ![p] =
                           Append([stack[p] EXCEPT ![Len(stack[p])] =
                                     [@ EXCEPT !.left = Index(Top(p).words, Top(p).digit),
                                               !.words = Tail(Top(p).words),
                                               !.pc = "wait"]],
                                  NewFrame(Top(p).remaining[1]))]
            /\ trace' = [trace EXCEPT ![p] = Append(@, Top(p).remaining[1])]
            /\ UNCHANGED status
       ELSE /\ status' = [status EXCEPT ![p] = "raised"]
            /\ stack'  = [stack EXCEPT ![p] = <<>>]
            /\ UNCHANGED trace
    /\ UNCHANGED <<input, result>>

\* line 9, first half: evaluate words[digit], then call
\* say_digit(remaining).  An out-of-range subscript raises IndexError,
\* which unwinds the whole stack (nothing catches it).
StepCall(p) ==
    /\ Running(p, "call")
    /\ Len(stack[p]) < MaxDepth
    /\ IF IndexInRange(Top(p).words, Top(p).digit)
       THEN /\ stack' = [stack EXCEPT ![p] =
                           Append([stack[p] EXCEPT ![Len(stack[p])] =
                                     [@ EXCEPT !.left = Index(Top(p).words, Top(p).digit),
                                               !.pc = "wait"]],
                                  NewFrame(Top(p).remaining[1]))]
            /\ trace' = [trace EXCEPT ![p] = Append(@, Top(p).remaining[1])]
            /\ UNCHANGED status
       ELSE /\ status' = [status EXCEPT ![p] = "raised"]
            /\ stack'  = [stack EXCEPT ![p] = <<>>]
            /\ UNCHANGED trace
    /\ UNCHANGED <<input, result>>

\* line 9, second half: the recursive call has returned; concatenate and
\* return.
StepAdd(p) ==
    /\ Running(p, "add")
    /\ ReturnValue(p, Concat(Top(p).left, Top(p).ret))
    /\ UNCHANGED <<input, trace>>

\* The caller takes the returned value (or the exception) and the thread
\* is free to call again.
Finish(p) ==
    /\ status[p] \in {"done", "raised"}
    /\ status' = [status EXCEPT ![p] = "idle"]
    /\ input'  = [input EXCEPT ![p] = 0]
    /\ result' = [result EXCEPT ![p] = ""]
    /\ trace'  = [trace EXCEPT ![p] = <<>>]
    /\ UNCHANGED stack

Step(p) ==
    \/ StepTest(p)
    \/ StepMod(p)
    \/ StepDiv(p)
    \/ StepCall(p)
    \/ StepAdd(p)

Next ==
    \/ \E p \in Procs : \E n \in Inputs : Call(p, n)
    \/ \E p \in Procs : Step(p)
    \/ \E p \in Procs : Finish(p)

Spec == Init /\ [][Next]_vars

\* The threads of FairProcs only, each of them scheduled whenever it can
\* run: a started call keeps executing its next line.
FairNext ==
    \/ \E p \in FairProcs : \E n \in Inputs : Call(p, n)
    \/ \E p \in FairProcs : Step(p)
    \/ \E p \in FairProcs : Finish(p)

FairSpec == Init /\ [][FairNext]_vars /\ \A p \in FairProcs : WF_vars(Step(p))

\* ------------------------------------------------------------ properties

Done(p) == status[p] = "done"

\* The English name of a decimal digit.
EnglishName(d) ==
    CASE d = 0 -> "zero"  [] d = 1 -> "one"   [] d = 2 -> "two"
      [] d = 3 -> "three" [] d = 4 -> "four"  [] d = 5 -> "five"
      [] d = 6 -> "six"   [] d = 7 -> "seven" [] d = 8 -> "eight"
      [] d = 9 -> "nine"

\* The names of all decimal digits of n >= 0, least significant first,
\* concatenated without separators ("" for 0).
RECURSIVE Spelled(_)
Spelled(n) == IF n = 0 THEN "" ELSE EnglishName(n % 10) \o Spelled(n \div 10)

\* Number of decimal digits of n >= 1.
RECURSIVE NumDigits(_)
NumDigits(n) == IF n < 10 THEN 1 ELSE 1 + NumDigits(n \div 10)

\* Number of invocations in a trace whose argument is 0 (base case) and
\* whose argument is not 0 (non-base).
BaseCount(t)    == Cardinality({i \in 1..Len(t) : t[i] = 0})
NonBaseCount(t) == Cardinality({i \in 1..Len(t) : t[i] # 0})

\* C1: for every n >= 1 the returned string is the concatenation of the
\* names of all decimal digits of n, least significant first
\* (say_digit(12) = "twoone").
C1_AllDigitsLeastFirst ==
    \A p \in Procs :
        (Done(p) /\ input[p] >= 1) => result[p] = Spelled(input[p])

\* C2: say_digit(0) returns "" and 0 is the only non-negative input whose
\* result is empty.
C2_EmptyOnlyForZero ==
    \A p \in Procs :
        (Done(p) /\ input[p] >= 0) => ((result[p] = "") <=> (input[p] = 0))

C2_Witness ==
    \E p \in Procs : Done(p) /\ input[p] = 0 /\ result[p] = ""

\* C3: for every single-digit input d in 1..9 the result is exactly the
\* English name of d, with nothing appended.
C3_SingleDigit ==
    \A p \in Procs :
        (Done(p) /\ input[p] \in 1..9) => result[p] = EnglishName(input[p])

C3_Witness ==
    \E p \in Procs : Done(p) /\ input[p] = 5 /\ result[p] = "five"

\* C4: for every n >= 1 with n mod 10 = 0 the result is "zero" followed by
\* say_digit(n div 10), so say_digit(10) = "zeroone".
C4_ZeroDigitThenRest ==
    \A p \in Procs :
        (Done(p) /\ input[p] >= 1 /\ input[p] % 10 = 0)
            => result[p] = "zero" \o say_digit(input[p] \div 10)

\* C5: for every non-negative input the recursion terminates, and it does
\* so through exactly one base-case invocation, the last one made, whose
\* argument is 0.
C5_Terminates ==
    \A p \in Procs :
        /\ [](Done(p) => (/\ trace[p][Len(trace[p])] = 0
                          /\ BaseCount(trace[p]) = 1))
        /\ [](status[p] = "running" /\ input[p] >= 0 => <>Done(p))

C5_Witness ==
    \E p \in Procs :
        Done(p) /\ input[p] >= 1 /\ Len(trace[p]) > 1 /\ trace[p][Len(trace[p])] = 0

\* C6: the table of every activation always has exactly 10 entries, entry
\* i being the name of digit i, and two calls with the same input return
\* the same string.
C6_Pure ==
    /\ \A p \in Procs : \A i \in 1..Len(stack[p]) :
          /\ Len(stack[p][i].words) = 10
          /\ \A d \in 0..9 : stack[p][i].words[d + 1] = EnglishName(d)
    /\ \A p, q \in Procs :
          (Done(p) /\ Done(q) /\ input[p] = input[q]) => result[p] = result[q]

C6_Witness ==
    \E p, q \in Procs :
        /\ p # q
        /\ Done(p) /\ input[p] # 0
        /\ status[q] = "running" /\ input[q] = input[p]
        /\ Len(stack[q]) = 1 /\ stack[q][1].pc = "add"

\* C7: with the steps of several invocations interleaved, every invocation
\* returns what the function returns when evaluated on its own.
C7_SameAsAlone ==
    \A p \in Procs : Done(p) => result[p] = say_digit(input[p])

C7_Witness ==
    \E p, q \in Procs :
        /\ p # q
        /\ Done(p) /\ input[p] = 12
        /\ Running(q, "div") /\ input[q] = 3

\* C8: for every n >= 1 with k decimal digits the call makes exactly k
\* non-base invocations followed by one base-case invocation.
C8_DepthIsDigitCount ==
    \A p \in Procs :
        (Done(p) /\ input[p] >= 1)
            => /\ NonBaseCount(trace[p]) = NumDigits(input[p])
               /\ BaseCount(trace[p]) = 1
               /\ trace[p][Len(trace[p])] = 0

\* C9: for every nonzero input the argument of every recursive call is 0
\* and the result is exactly the one word words[n mod 10] (floor modulo).
C9_OneFragment ==
    \A p \in Procs :
        /\ \A i \in 2..Len(trace[p]) : trace[p][i] = 0
        /\ (Done(p) /\ input[p] # 0)
              => /\ result[p] = EnglishName(input[p] % 10)
                 /\ trace[p] = <<input[p], 0>>

C9_Witness ==
    \E p \in Procs : Done(p) /\ input[p] = 12 /\ result[p] = "two"

\* C10: for every integer input, negative ones included, the subscript
\* used on the table lies in 0..9, no lookup raises, and the call returns.
C10_IndexInTable ==
    \A p \in Procs :
        /\ [](/\ status[p] # "raised"
              /\ \A i \in 1..Len(stack[p]) :
                    stack[p][i].pc \in {"div", "call", "wait", "add"}
                        => stack[p][i].digit \in 0..9)
        /\ [](status[p] = "running" => <>Done(p))

C10_Witness ==
    \E p \in Procs :
        /\ input[p] < 0
        /\ Running(p, "call")
        /\ Top(p).digit \in 0..9

====
